---- MODULE Spec2Model ----
(***************************************************************************)
(* Model of the adapter glue code of NeMo:                                 *)
(*   - adapters/mcore_mixins.py: swap_mcore_mixin, the mixins'             *)
(*     mcore_register_adapters and                                         *)
(*     MCoreSelfAttentionMixin.get_query_key_value_tensors;                *)
(*   - griffin/griffin_model.py: GriffinModel.set_input_tensor / forward.  *)
(*                                                                         *)
(* A tensor is a record [shape, val]: shape is the sequence of its         *)
(* dimensions, val a term in prefix notation (a sequence of strings) that  *)
(* says how the tensor was computed.                                       *)
(***************************************************************************)
EXTENDS Integers, Sequences, FiniteSets, TLC

VARIABLES module, call, griffin, gcall

vars == <<module, call, griffin, gcall>>

(* ------------------------------ bounds --------------------------------- *)
MaxHeads == 4
MaxGroups == 3
MaxHeadSize == 2
MaxSeq == 2
MaxBatch == 2
MaxTensor == 3

(* ------------------------------ classes -------------------------------- *)
\* the megatron classes the mixins derive from (the class of a module before the swap)
BaseClasses == {"SelfAttention", "MLP", "LanguageModelEmbedding", "TransformerLayer"}

\* the mixins that override mcore_register_adapters
OverridingMixins ==
    {"MCoreSelfAttentionMixin", "MCoreMLPMixin", "MCoreGPTEmbeddingMixin", "MCoreTransformerLayerMixin"}

Mixins == OverridingMixins \cup {"MCoreAdapterModuleMixin"}

\* the classes linear_qkv can be an instance of; only the first two are recognised
LinearTypes == {"TELayerNormColumnParallelLinear", "TEColumnParallelLinear", "ColumnParallelLinear"}

\* AdapterName.LORA_KQV_ADAPTER, KEY_INFUSED, VALUE_INFUSED
LORA_KQV_ADAPTER == "lora_kqv_adapter"
KEY_INFUSED == "key_infused_adapter"
VALUE_INFUSED == "value_infused_adapter"

\* the config every adapter name used by the attention mixin is built from
AdapterCfg ==
    {<<LORA_KQV_ADAPTER, "LoraKQVAdapterConfig">>,
     <<KEY_INFUSED, "InfusedAdapterConfig">>,
     <<VALUE_INFUSED, "InfusedAdapterConfig">>}

(* ------------------------------ tensors -------------------------------- *)
RECURSIVE numel(_)
numel(shape) == IF shape = <<>> THEN 1 ELSE Head(shape) * numel(Tail(shape))

NoTensor == [shape |-> <<>>, val |-> <<>>]

\* an exception-free return of a call
Ok == "ok"

(* ------------------------- adapter_mixins (base) ----------------------- *)
\* AdapterModuleMixin.set_accepted_adapter_types: the accepted types BECOME the given ones
set_accepted_adapter_types(self, types) == [self EXCEPT !.accepted = types]

\* AdapterModuleMixin.is_adapter_available: some adapter has been added
is_adapter_available(self) == self.adapter_layer # {}

\* AdapterModuleMixin.get_adapter_module(name): the adapter, or None (FALSE)
get_adapter_module(self, name) == name \in self.adapter_layer

\* whether the module has a linear_qkv attribute
has_linear_qkv(self) == self.qkv_type # "none"

(* ----------------------- mcore_register_adapters ----------------------- *)
\* MCoreAdapterModuleMixin.mcore_register_adapters
MCoreAdapterModuleMixin_register(self) ==
    [m |-> self, outcome |-> "NotImplementedError"]

\* MCoreSelfAttentionMixin.mcore_register_adapters
MCoreSelfAttentionMixin_register(self) ==
    LET s1 == set_accepted_adapter_types(self, {"LoraKQVAdapterConfig", "InfusedAdapterConfig"})
    IN  IF has_linear_qkv(s1)
        THEN [m |-> [s1 EXCEPT !.return_layernorm_output = TRUE], outcome |-> Ok]
        ELSE [m |-> s1, outcome |-> "AttributeError"]

\* the MLP mixin registering the attention IA3 config instead of its own
MCoreMLPMixin_register_AttentionConfig(self) ==
    [m |-> set_accepted_adapter_types(self, {"InfusedAdapterConfig"}), outcome |-> Ok]

\* MCoreMLPMixin.mcore_register_adapters
MCoreMLPMixin_register(self) ==
    [m |-> set_accepted_adapter_types(self, {"MLPInfusedAdapterConfig"}), outcome |-> Ok]

\* MCoreGPTEmbeddingMixin.mcore_register_adapters
MCoreGPTEmbeddingMixin_register(self) ==
    [m |-> set_accepted_adapter_types(self, {"PromptEncoderAdapterConfig"}), outcome |-> Ok]

\* MCoreTransformerLayerMixin.mcore_register_adapters
MCoreTransformerLayerMixin_register(self) ==
    [m |-> set_accepted_adapter_types(self, {"ParallelLinearAdapterConfig"}), outcome |-> Ok]

\* module.mcore_register_adapters(): the method is looked up on the module's class
\* at the time of the call; the megatron base classes have no such method
mcore_register_adapters(self) ==
    CASE self.cls = "MCoreSelfAttentionMixin" -> MCoreSelfAttentionMixin_register(self)
      [] self.cls = "MCoreMLPMixin" -> MCoreMLPMixin_register(self)
      [] self.cls = "MCoreGPTEmbeddingMixin" -> MCoreGPTEmbeddingMixin_register(self)
      [] self.cls = "MCoreTransformerLayerMixin" -> MCoreTransformerLayerMixin_register(self)
      [] self.cls = "MCoreAdapterModuleMixin" -> MCoreAdapterModuleMixin_register(self)
      [] OTHER -> [m |-> self, outcome |-> "AttributeError"]

(* --------------------------- swap_mcore_mixin -------------------------- *)
\* a call event of the log: what was done, and on/with which class
Ev(what, cls) == <<what, cls>>

\* swap_mcore_mixin written the wrong way round: register, then cast
swap_mcore_mixin_RegisterFirst(m, mcore_mixin) ==
    LET r == mcore_register_adapters(m)
    IN  IF r.outcome = Ok
        THEN [m |-> [r.m EXCEPT !.cls = mcore_mixin], outcome |-> Ok,
              log |-> <<Ev("mcore_register_adapters", m.cls), Ev("__class__", mcore_mixin)>>]
        ELSE [m |-> r.m, outcome |-> r.outcome,
              log |-> <<Ev("mcore_register_adapters", m.cls)>>]

\* swap_mcore_mixin(module, mcore_mixin)
swap_mcore_mixin(m, mcore_mixin) ==
    LET m1 == [m EXCEPT !.cls = mcore_mixin]
        r == mcore_register_adapters(m1)
    IN  [m |-> r.m, outcome |-> r.outcome,
         log |-> <<Ev("__class__", mcore_mixin), Ev("mcore_register_adapters", m1.cls)>>]

(* --------------------- torch operations on tensors --------------------- *)
\* Tensor.view(*shape): the same elements under another shape, or a RuntimeError
view_ok(t, shape) == numel(t.shape) = numel(shape)

\* torch.split(t, sizes, dim=3): the sizes must add up to the size of dimension 3
split_ok(t, sizes) == Len(t.shape) = 4 /\ sizes[1] + sizes[2] + sizes[3] = t.shape[4]

\* the i-th piece of torch.split(t, sizes, dim=3)
split_piece(t, sizes, i) ==
    [shape |-> <<t.shape[1], t.shape[2], t.shape[3], sizes[i]>>,
     val |-> <<CASE i = 1 -> "split0" [] i = 2 -> "split1" [] OTHER -> "split2">> \o t.val]

\* Tensor.reshape(d0, d1, -1, dlast): the third dimension is inferred, which torch
\* refuses for an empty tensor and for a number of elements d0*d1*dlast does not divide
reshape_infer_ok(t, d0, d1, dlast) ==
    /\ d0 * d1 * dlast > 0
    /\ numel(t.shape) > 0
    /\ numel(t.shape) % (d0 * d1 * dlast) = 0

reshape_infer(t, d0, d1, dlast) ==
    [t EXCEPT !.shape = <<d0, d1, numel(t.shape) \div (d0 * d1 * dlast), dlast>>]

\* a + b
add(a, b) == [shape |-> a.shape, val |-> <<"add">> \o a.val \o b.val]

\* adapter(x): the adapter `name` applied to x, its output shaped like `like`
apply_adapter(name, x, like) == [shape |-> like.shape, val |-> <<name>> \o x.val]

(* ------------- MCoreSelfAttentionMixin.get_query_key_value_tensors ----- *)
\* self.linear_qkv(hidden_states)[0]: a TELayerNormColumnParallelLinear that has
\* return_layernorm_output set returns the pair (linear output, layernorm output),
\* every other layer its linear output alone
linear_qkv(self, hidden_states) ==
    LET out == [shape |-> <<hidden_states.shape[1], hidden_states.shape[2], self.qkv_out>>,
                val |-> <<"linear_qkv">> \o hidden_states.val]
        ln == [shape |-> hidden_states.shape, val |-> <<"layernorm">> \o hidden_states.val]
    IN  IF self.qkv_type = "TELayerNormColumnParallelLinear" /\ self.return_layernorm_output
        THEN [pair |-> TRUE, mixed_qkv |-> out, layernorm_output |-> ln]
        ELSE [pair |-> FALSE, mixed_qkv |-> out, layernorm_output |-> NoTensor]

\* the isinstance chain of lines 77-84: which linear_qkv classes are recognised
recognised(self) ==
    self.qkv_type \in {"TELayerNormColumnParallelLinear", "TEColumnParallelLinear"}

\* the LoRA input always taken from hidden_states
lora_input_AlwaysHidden(self, hidden_states, layernorm_output) ==
    [name |-> "hidden_states", t |-> hidden_states]

\* lines 90-95: what the LoRA adapter is applied to (the ValueError of line 95 cannot
\* be raised: an unrecognised linear_qkv has raised at line 82 already)
lora_input(self, hidden_states, layernorm_output) ==
    IF self.qkv_type = "TELayerNormColumnParallelLinear"
    THEN [name |-> "layernorm_output", t |-> layernorm_output]
    ELSE [name |-> "hidden_states", t |-> hidden_states]

\* lines 87-96: mixed_qkv after the LoRA logic, with the calls it made
lora_logic(self, hidden_states, mixed_qkv, layernorm_output) ==
    IF ~is_adapter_available(self)
    THEN [mixed_qkv |-> mixed_qkv, log |-> <<>>]
    ELSE IF ~get_adapter_module(self, LORA_KQV_ADAPTER)
    THEN [mixed_qkv |-> mixed_qkv, log |-> <<Ev("get_adapter_module", LORA_KQV_ADAPTER)>>]
    ELSE LET in == lora_input(self, hidden_states, layernorm_output)
             lora_mixed_qkv == apply_adapter(LORA_KQV_ADAPTER, in.t, mixed_qkv)
         IN  [mixed_qkv |-> add(mixed_qkv, lora_mixed_qkv),
              log |-> <<Ev("get_adapter_module", LORA_KQV_ADAPTER),
                        Ev(LORA_KQV_ADAPTER, in.name),
                        Ev("add", "lora_mixed_qkv")>>]

\* the query width of a group computed without the grouping
query_size_Ungrouped(self) == self.np * self.hn

\* lines 112-116: np // ng * hn
query_size(self) == (self.np \div self.ng) * self.hn

\* lines 99-105: mixed_qkv.size()[:-1] + (ng, (np // ng + 2) * hn)
new_tensor_shape(self, shape) ==
    <<shape[1], shape[2], self.ng, ((self.np \div self.ng) + 2) * self.hn>>

\* lines 111-119: the three split sizes
split_sizes(self) == <<query_size(self), self.hn, self.hn>>

\* lines 125-135: the IA3 logic on key and value
infused_logic(self, key, value) ==
    IF ~is_adapter_available(self)
    THEN [outcome |-> Ok, key |-> key, value |-> value, log |-> <<>>]
    ELSE LET k == get_adapter_module(self, KEY_INFUSED)
             v == get_adapter_module(self, VALUE_INFUSED)
             lookups == <<Ev("get_adapter_module", KEY_INFUSED), Ev("get_adapter_module", VALUE_INFUSED)>>
         IN  IF k # v
             THEN [outcome |-> "AssertionError", key |-> key, value |-> value, log |-> lookups]
             ELSE IF k
             THEN [outcome |-> Ok,
                   key |-> apply_adapter(KEY_INFUSED, key, key),
                   value |-> apply_adapter(VALUE_INFUSED, value, value),
                   log |-> lookups \o <<Ev(KEY_INFUSED, "key"), Ev(VALUE_INFUSED, "value")>>]
             ELSE [outcome |-> Ok, key |-> key, value |-> value, log |-> lookups]

\* a call that raised
Raised(exc, log) ==
    [outcome |-> exc, log |-> log, query |-> NoTensor, key |-> NoTensor, value |-> NoTensor]

\* get_query_key_value_tensors(self, hidden_states); "UnpackError" stands for line 78
\* unpacking a bare tensor, which needs return_layernorm_output unset
get_query_key_value_tensors(self, hidden_states) ==
    IF ~has_linear_qkv(self) THEN Raised("AttributeError", <<>>) ELSE
    LET out == linear_qkv(self, hidden_states)
        log1 == <<Ev("linear_qkv", "hidden_states")>>
    IN
    IF ~recognised(self) THEN Raised("ValueError", log1) ELSE
    IF self.qkv_type = "TELayerNormColumnParallelLinear" /\ ~out.pair
    THEN Raised("UnpackError", log1) ELSE
    LET lora == lora_logic(self, hidden_states, out.mixed_qkv, out.layernorm_output)
        log2 == log1 \o lora.log
        shape == new_tensor_shape(self, lora.mixed_qkv.shape)
    IN
    IF ~view_ok(lora.mixed_qkv, shape) THEN Raised("RuntimeError", log2) ELSE
    LET mixed_qkv == [lora.mixed_qkv EXCEPT !.shape = shape]
        sizes == split_sizes(self)
        log3 == log2 \o <<Ev("view", "mixed_qkv")>>
    IN
    IF ~split_ok(mixed_qkv, sizes) THEN Raised("RuntimeError", log3) ELSE
    LET q0 == split_piece(mixed_qkv, sizes, 1)
        key == split_piece(mixed_qkv, sizes, 2)
        value == split_piece(mixed_qkv, sizes, 3)
        log4 == log3 \o <<Ev("split", "mixed_qkv")>>
    IN
    IF ~reshape_infer_ok(q0, q0.shape[1], q0.shape[2], self.hn)
    THEN Raised("RuntimeError", log4) ELSE
    LET query == reshape_infer(q0, q0.shape[1], q0.shape[2], self.hn)
        ia3 == infused_logic(self, key, value)
        log5 == log4 \o <<Ev("reshape", "query")>> \o ia3.log
    IN
    IF ia3.outcome # Ok THEN Raised(ia3.outcome, log5) ELSE
    [outcome |-> Ok, log |-> log5, query |-> query, key |-> ia3.key, value |-> ia3.value]

(* ------------------------------ GriffinModel --------------------------- *)
\* Python's None, and an attribute that was never assigned
None == 0
Unset == -1

Tensors == 1..MaxTensor

\* GriffinModel.set_input_tensor(input_tensor)
set_input_tensor(self, input_tensor) == [self EXCEPT !.input_tensor = input_tensor]

\* lines 135-136: the tensor forward works on
forward_input(self, input_ids) ==
    IF input_ids = None THEN self.input_tensor ELSE input_ids

\* a forward call that raised before anything was embedded
GRaised(exc, self) ==
    [self |-> self, outcome |-> exc, embedded |-> None, decoded |-> None,
     rotary_pos_emb |-> FALSE, returns |-> "none"]

\* GriffinModel.forward(input_ids, labels=labels)
forward(self, input_ids, labels) ==
    LET ids == forward_input(self, input_ids)
    IN  IF ids = Unset THEN GRaised("AttributeError", self)      \* self.input_tensor
        ELSE IF ids = None THEN GRaised("AttributeError", self)  \* token_ids.size(1)
        ELSE IF ~self.pre_process THEN GRaised("AttributeError", self)  \* self.embedding
        ELSE [self |-> [self EXCEPT !.decoder_input_tensor = None],
              outcome |-> Ok,
              embedded |-> ids,
              decoded |-> ids,
              rotary_pos_emb |-> self.position_embedding_type = "rope",
              returns |-> IF labels = None THEN "logits" ELSE "loss"]

(* ------------------------------- the state ----------------------------- *)
\* the widths linear_qkv can have been built with: the one the comment of line 69
\* gives, ng * (np // ng + 2) * hn, and query plus key plus value heads, (np + 2 ng) * hn
QkvWidths(np, ng, hn) == {ng * ((np \div ng) + 2) * hn, (np + 2 * ng) * hn}

\* hidden_states: [sq, b, h]
HiddenStates(self, sq, b) == [shape |-> <<sq, b, self.np * self.hn>>, val |-> <<"hidden_states">>]

NewModule(kind, qkv_type, np, ng, hn, qkv_out) ==
    [kind |-> kind, cls |-> kind, accepted |-> {}, adapter_layer |-> {},
     qkv_type |-> qkv_type, return_layernorm_output |-> FALSE,
     np |-> np, ng |-> ng, hn |-> hn, qkv_out |-> qkv_out]

\* the modules of a model before any swap: attention layers of every configuration,
\* and the layers that have no linear_qkv
Modules ==
    { NewModule("SelfAttention", t, c[1], c[2], c[3], c[4]) :
        t \in LinearTypes,
        c \in { d \in (1..MaxHeads) \X (1..MaxGroups) \X (1..MaxHeadSize)
                      \X (1..((MaxHeads + 2 * MaxGroups) * MaxHeadSize)) :
                  d[4] \in QkvWidths(d[1], d[2], d[3]) } }
    \cup { NewModule(k, "none", 1, 1, 1, 0) : k \in BaseClasses \ {"SelfAttention"} }

NoCall ==
    [op |-> "none", mixin |-> "none", prev_cls |-> "none", hidden |-> NoTensor,
     outcome |-> Ok, log |-> <<>>, query |-> NoTensor, key |-> NoTensor, value |-> NoTensor]

NoGCall ==
    [op |-> "none", input_ids |-> None, labels |-> None, outcome |-> Ok,
     embedded |-> None, decoded |-> None, rotary_pos_emb |-> FALSE, returns |-> "none"]

NewGriffin(pre_process, position_embedding_type) ==
    [pre_process |-> pre_process, position_embedding_type |-> position_embedding_type,
     input_tensor |-> Unset, decoder_input_tensor |-> Unset]

(* ------------------------------ the actions ---------------------------- *)
\* swap_mcore_mixin(module, mcore_mixin)
Swap(mcore_mixin) ==
    LET r == swap_mcore_mixin(module, mcore_mixin)
    IN  /\ module' = r.m
        /\ call' = [NoCall EXCEPT !.op = "swap_mcore_mixin", !.mixin = mcore_mixin,
                                  !.prev_cls = module.cls,
                                  !.outcome = r.outcome, !.log = r.log]
        /\ UNCHANGED <<griffin, gcall>>

\* module.add_adapter(name, cfg) of AdapterModuleMixin: a config of a type the module
\* does not accept is refused
AddAdapter(name, cfg) ==
    /\ module.cls \in Mixins
    /\ IF module.accepted # {} /\ cfg \notin module.accepted
       THEN /\ module' = module
            /\ call' = [NoCall EXCEPT !.op = "add_adapter", !.outcome = "ValueError"]
       ELSE /\ module' = [module EXCEPT !.adapter_layer = @ \cup {name}]
            /\ call' = [NoCall EXCEPT !.op = "add_adapter"]
    /\ UNCHANGED <<griffin, gcall>>

\* module.get_query_key_value_tensors(hidden_states), a method of MCoreSelfAttentionMixin
GetQKV(sq, b) ==
    /\ module.cls = "MCoreSelfAttentionMixin"
    /\ LET hs == HiddenStates(module, sq, b)
           r == get_query_key_value_tensors(module, hs)
       IN  call' = [NoCall EXCEPT !.op = "get_query_key_value_tensors", !.hidden = hs,
                                  !.outcome = r.outcome, !.log = r.log,
                                  !.query = r.query, !.key = r.key, !.value = r.value]
    /\ UNCHANGED <<module, griffin, gcall>>

\* model.set_input_tensor(input_tensor)
SetInputTensor(input_tensor) ==
    /\ griffin' = set_input_tensor(griffin, input_tensor)
    /\ gcall' = [NoGCall EXCEPT !.op = "set_input_tensor", !.input_ids = input_tensor]
    /\ UNCHANGED <<module, call>>

\* model.forward(input_ids, labels=labels)
Forward(input_ids, labels) ==
    LET r == forward(griffin, input_ids, labels)
    IN  /\ griffin' = r.self
        /\ gcall' = [op |-> "forward", input_ids |-> input_ids, labels |-> labels,
                     outcome |-> r.outcome, embedded |-> r.embedded,
                     decoded |-> r.decoded, rotary_pos_emb |-> r.rotary_pos_emb,
                     returns |-> r.returns]
        /\ UNCHANGED <<module, call>>

(* --------------------------- the specifications ------------------------ *)
\* the adapter mixins on one module
Init ==
    /\ module \in Modules
    /\ call = NoCall
    /\ griffin = NewGriffin(TRUE, "rope")
    /\ gcall = NoGCall

Next ==
    \/ \E mcore_mixin \in Mixins : Swap(mcore_mixin)
    \/ \E nc \in AdapterCfg : AddAdapter(nc[1], nc[2])
    \/ \E sq \in 1..MaxSeq, b \in 1..MaxBatch : GetQKV(sq, b)

Spec == Init /\ [][Next]_vars

\* one GriffinModel
InitGriffin ==
    /\ module = NewModule("SelfAttention", "TELayerNormColumnParallelLinear", 1, 1, 1, 3)
    /\ call = NoCall
    /\ griffin \in { NewGriffin(p, e) : p \in BOOLEAN, e \in {"rope", "none"} }
    /\ gcall = NoGCall

NextGriffin ==
    \/ \E t \in Tensors \cup {None} : SetInputTensor(t)
    \/ \E input_ids \in Tensors \cup {None}, labels \in Tensors \cup {None} :
          Forward(input_ids, labels)

SpecGriffin == InitGriffin /\ [][NextGriffin]_vars

(* ------------------------------- the claims ---------------------------- *)
\* the adapter types each mixin's docstring names
DocumentedTypes(mixin) ==
    CASE mixin = "MCoreSelfAttentionMixin" -> {"LoraKQVAdapterConfig", "InfusedAdapterConfig"}
      [] mixin = "MCoreMLPMixin" -> {"MLPInfusedAdapterConfig"}
      [] mixin = "MCoreGPTEmbeddingMixin" -> {"PromptEncoderAdapterConfig"}
      [] mixin = "MCoreTransformerLayerMixin" -> {"ParallelLinearAdapterConfig"}
      [] OTHER -> {}

IsSwap == call.op = "swap_mcore_mixin"
IsQKV == call.op = "get_query_key_value_tensors"
HasLora == LORA_KQV_ADAPTER \in module.adapter_layer

\* C1: swap_mcore_mixin with a mixin that overrides mcore_register_adapters sets the
\* module's class to the mixin first and then calls mcore_register_adapters exactly
\* once, which runs the mixin's registration; when the call returns the module's
\* class is the mixin and its accepted adapter types are the mixin's.
C1_SwapCastsThenRegisters ==
    (IsSwap /\ call.mixin \in OverridingMixins) =>
        /\ call.log = <<Ev("__class__", call.mixin), Ev("mcore_register_adapters", call.mixin)>>
        /\ call.outcome = Ok =>
              /\ module.cls = call.mixin
              /\ module.accepted = DocumentedTypes(call.mixin)

\* C1 happens: a module that was another mixin's is swapped, and the call returns
C1_Witness ==
    /\ IsSwap
    /\ call.outcome = Ok
    /\ call.mixin \in OverridingMixins
    /\ call.prev_cls \in OverridingMixins \ {call.mixin}
    /\ module.cls = call.mixin

\* C2: once registered, a module of each mixin accepts exactly the adapter types the
\* mixin's docstring names, and the attention mixin has set
\* linear_qkv.return_layernorm_output on a module that has a linear_qkv.
C2_AcceptedTypes ==
    /\ module.cls = "MCoreSelfAttentionMixin" =>
          /\ module.accepted = {"LoraKQVAdapterConfig", "InfusedAdapterConfig"}
          /\ has_linear_qkv(module) => module.return_layernorm_output
    /\ module.cls = "MCoreMLPMixin" => module.accepted = {"MLPInfusedAdapterConfig"}
    /\ module.cls = "MCoreGPTEmbeddingMixin" => module.accepted = {"PromptEncoderAdapterConfig"}
    /\ module.cls = "MCoreTransformerLayerMixin" => module.accepted = {"ParallelLinearAdapterConfig"}

\* C2 happens: an attention module was registered and took a LoRA adapter since
C2_Witness ==
    /\ module.cls = "MCoreSelfAttentionMixin"
    /\ module.kind = "SelfAttention"
    /\ module.return_layernorm_output
    /\ HasLora
    /\ call.op = "add_adapter"

\* C3: in a forward call made after set_input_tensor(t), the tensor that is embedded
\* and passed through the decoder is t, whatever input_ids the caller passes.
C3_SetInputTensorWins ==
    (gcall.op = "forward" /\ griffin.input_tensor \in Tensors /\ griffin.pre_process) =>
        /\ gcall.outcome = Ok
        /\ gcall.embedded = griffin.input_tensor
        /\ gcall.decoded = griffin.input_tensor

\* the value of linear_qkv(hidden_states), and of the LoRA adapter applied to x
LinearVal == <<"linear_qkv", "hidden_states">>
LoraSum(x) == <<"add">> \o LinearVal \o <<LORA_KQV_ADAPTER>> \o x

\* s ends with t
EndsWith(s, t) == Len(s) >= Len(t) /\ SubSeq(s, Len(s) - Len(t) + 1, Len(s)) = t

\* the events of a log that invoke or look up an adapter, or add its output
AdapterEvents(log) ==
    { i \in 1..Len(log) : log[i][1] \in {"get_adapter_module", "add", LORA_KQV_ADAPTER,
                                         KEY_INFUSED, VALUE_INFUSED} }

\* C4: the type of linear_qkv decides the LoRA input: layernorm_output for a
\* TELayerNormColumnParallelLinear, hidden_states for a TEColumnParallelLinear, a
\* ValueError before any adapter is looked up or invoked for any other type; the LoRA
\* output is added to mixed_qkv before the split, and without a LoRA adapter
\* mixed_qkv is split unchanged.
C4_LoraInputByLinearType ==
    (IsQKV /\ has_linear_qkv(module)) =>
        /\ ~recognised(module) =>
              /\ call.outcome = "ValueError"
              /\ AdapterEvents(call.log) = {}
        /\ (recognised(module) /\ HasLora) =>
              LET x == IF module.qkv_type = "TELayerNormColumnParallelLinear"
                       THEN "layernorm_output" ELSE "hidden_states"
                  xv == IF module.qkv_type = "TELayerNormColumnParallelLinear"
                        THEN <<"layernorm", "hidden_states">> ELSE <<"hidden_states">>
              IN  /\ Len(call.log) >= 4
                  /\ SubSeq(call.log, 1, 4) =
                        <<Ev("linear_qkv", "hidden_states"),
                          Ev("get_adapter_module", LORA_KQV_ADAPTER),
                          Ev(LORA_KQV_ADAPTER, x),
                          Ev("add", "lora_mixed_qkv")>>
                  /\ \A i \in 5..Len(call.log) : call.log[i][1] \notin {LORA_KQV_ADAPTER, "add"}
                  /\ call.outcome = Ok =>
                        /\ call.query.val = <<"split0">> \o LoraSum(xv)
                        /\ EndsWith(call.key.val, <<"split1">> \o LoraSum(xv))
                        /\ EndsWith(call.value.val, <<"split2">> \o LoraSum(xv))
        /\ (recognised(module) /\ ~HasLora) =>
              /\ \A i \in 1..Len(call.log) : call.log[i][1] \notin {LORA_KQV_ADAPTER, "add"}
              /\ call.outcome = Ok =>
                    /\ call.query.val = <<"split0">> \o LinearVal
                    /\ EndsWith(call.key.val, <<"split1">> \o LinearVal)
                    /\ EndsWith(call.value.val, <<"split2">> \o LinearVal)

\* C4 happens: a LoRA adapter on a module whose linear_qkv is fused with the layer
\* norm, and the call returns query, key and value
C4_Witness ==
    /\ IsQKV
    /\ call.outcome = Ok
    /\ HasLora
    /\ module.qkv_type = "TELayerNormColumnParallelLinear"
    /\ Ev(LORA_KQV_ADAPTER, "layernorm_output") \in { call.log[i] : i \in 1..Len(call.log) }

\* the case C5 is about: a recognised linear_qkv whose output has the width
\* ng * (np // ng + 2) * hn, and no IA3 adapter missing its twin
C5_Case ==
    /\ IsQKV
    /\ recognised(module)
    /\ module.qkv_out = module.ng * ((module.np \div module.ng) + 2) * module.hn
    /\ call.outcome # "AssertionError"

C5_Shapes(heads) ==
    LET sq == call.hidden.shape[1]
        b == call.hidden.shape[2]
    IN  /\ call.outcome = Ok
        /\ call.query.shape = <<sq, b, heads, module.hn>>
        /\ call.key.shape = <<sq, b, module.ng, module.hn>>
        /\ call.value.shape = <<sq, b, module.ng, module.hn>>
        /\ split_sizes(module)[1] + split_sizes(module)[2] + split_sizes(module)[3]
              = new_tensor_shape(module, call.hidden.shape)[4]

\* C5 as stated: for every np, ng and hn the call yields query [sq, b, np, hn], key
\* [sq, b, ng, hn] and value [sq, b, ng, hn].
C5_ShapesForEveryConfiguration == C5_Case => C5_Shapes(module.np)

\* C5, amended: for every np, ng and hn where ng divides np, the call yields query
\* [sq, b, np, hn], key [sq, b, ng, hn] and value [sq, b, ng, hn], and the three split
\* sizes sum to the last dimension of the reshaped tensor.
C5_ShapesWhenGroupsDivideHeads ==
    (C5_Case /\ module.np % module.ng = 0) => C5_Shapes(module.np)

\* C5 happens: grouped-query attention proper (1 < ng < np, ng divides np)
C5_Witness ==
    /\ C5_Case
    /\ call.outcome = Ok
    /\ module.ng > 1
    /\ module.np > module.ng
    /\ module.np % module.ng = 0
    /\ call.query.shape[3] = module.np

====
